---------------------------- MODULE Spec2Model ----------------------------
(***************************************************************************)
(* Model of the recipe importer's extraction cascade                       *)
(* (src/lambda_function.py): the confidence scorer, the four extraction    *)
(* strategies and the orchestrator scrape_recipe.                          *)
(*                                                                         *)
(* A Python dict is a function from its keys (strings) to values.  Field   *)
(* values are strings: "" stands for every falsy value ([], "", 0, {},     *)
(* None), any other string for a truthy one; the strings name the strategy *)
(* that supplied the value.  Scores are integers in hundredths (0.8 is     *)
(* 80); the weighted sum is carried in units of 1/10000 before rounding.   *)
(***************************************************************************)
EXTENDS Integers, Sequences, FiniteSets, TLC

-----------------------------------------------------------------------------
(* Bounds of the model.                                                    *)

\* A page decides the outcome of each of the first NumFreeFields fields (in
\* the order title, ingredients, instructions, image, ...) on its own, and
\* gives all the remaining fields one common outcome.
NumFreeFields == 3

-----------------------------------------------------------------------------
(* Dicts.                                                                  *)

EmptyDict == [k \in {} |-> ""]

\* None, as returned by a strategy that produced nothing.
None == [none |-> TRUE]

IsNone(d) == DOMAIN d = {"none"}

\* d[k] = v
Put(d, k, v) == (k :> v) @@ d

\* dict.get(k, default)
Get(d, k, default) == IF k \in DOMAIN d THEN d[k] ELSE default

\* Python truthiness of the value stored under key k.
Truthy(k, v) ==
    CASE k = "confidence_score" -> v # 0
      [] k = "parsing_methods"  -> DOMAIN v # {}
      [] k = "missing_required" -> v # << >>
      [] OTHER                  -> v # ""

RequiredFields == <<"title", "ingredients", "instructions">>

OptionalFields == <<"image", "total_time", "yields", "cuisine", "category", "nutrients">>

Range(s) == {s[i] : i \in DOMAIN s}

\* The nine fields the scorer weighs.
ScoredFields == Range(RequiredFields) \cup Range(OptionalFields)

-----------------------------------------------------------------------------
(* calculate_confidence_score                                              *)

\* Required weights that add up to 0.75.
required_weights_heavy == [title |-> 250, ingredients |-> 250, instructions |-> 250]

\* Weights in thousandths.
required_weights == [title |-> 200, ingredients |-> 250, instructions |-> 250]

optional_weights ==
    [image |-> 100, total_time |-> 50, yields |-> 50,
     cuisine |-> 25, category |-> 25, nutrients |-> 50]

\* The multipliers of schema.org and json-ld exchanged.
source_multipliers_swapped ==
    ("schema.org" :> 9) @@ ("json-ld" :> 10) @@ ("wild_mode" :> 7) @@
    ("llm" :> 5) @@ ("NOT_FOUND" :> 0) @@ ("ERROR" :> 0)

\* json-ld rated as high as schema.org.
source_multipliers_flat ==
    ("schema.org" :> 10) @@ ("json-ld" :> 10) @@ ("wild_mode" :> 7) @@
    ("llm" :> 5) @@ ("NOT_FOUND" :> 0) @@ ("ERROR" :> 0)

\* Multipliers in tenths.
source_multipliers ==
    ("schema.org" :> 10) @@ ("json-ld" :> 9) @@ ("wild_mode" :> 7) @@
    ("llm" :> 5) @@ ("NOT_FOUND" :> 0) @@ ("ERROR" :> 0)

\* source_multipliers.get(source, 0.5)
DefaultMultiplier == 5

Multiplier(source) == Get(source_multipliers, source, DefaultMultiplier)

\* A lookup that takes a missing entry for a tag it does not know.
SourceOf_unknown(parsing_methods, field) == Get(parsing_methods, field, "unknown")

\* parsing_methods.get(field, "ERROR")
SourceOf(parsing_methods, field) == Get(parsing_methods, field, "ERROR")

(* The score is a Python float (an IEEE-754 double).  A double x is kept  *)
(* exactly, as the pair [e, d] with  x = (e * 2^60 + d) / (10^4 * 2^60):   *)
(* e is the decimal value meant, in 1/10000, and d is the representation   *)
(* error that the double carries, in units of 1 / (10^4 * 2^60).           *)

FloatZero == [e |-> 0, d |-> 0]

\* weight * multiplier: the double nearest to the product of the doubles
\* nearest to the two literals.  0.25 and 0.5 are doubles; 0.2, 0.1, 0.05
\* and 0.025 differ by powers of two, and so do their errors.
FloatProduct(weight, multiplier) ==
    LET quarter == (10 :> 0) @@ (9 :> 64000) @@ (7 :> -128000) @@ (5 :> 0) @@ (0 :> 0)
        fortieth == (10 :> 16000) @@ (9 :> 30400) @@ (7 :> -20800) @@ (5 :> 8000) @@ (0 :> 0)
    IN  [e |-> weight * multiplier,
         d |-> IF weight = 250 THEN quarter[multiplier]
               ELSE (weight \div 25) * fortieth[multiplier]]

\* 2^n modulo 625, for n in 47..55
PowMod625(n) == <<328, 31, 62, 124, 248, 496, 367, 109, 218>>[n - 46]

\* The sum is at least 2^-k.
AtLeast(e, d, k) == e * 2^k > 10000 \/ (e * 2^k = 10000 /\ d >= 0)

\* score + product in double arithmetic: the exact sum rounded to the
\* nearest multiple of the unit in the last place (2^(-k-52) for a sum in
\* [2^-k, 2^(1-k))), an exact half going to the even multiple.
FloatAdd(x, y) ==
    LET e == x.e + y.e
        d == x.d + y.d
    IN  IF e = 0 /\ d = 0 THEN FloatZero
        ELSE
        LET k == CHOOSE j \in 0..7 :
                    AtLeast(e, d, j) /\ \A i \in 0..(j - 1) : ~AtLeast(e, d, i)
            ulp == 2^(8 - k) * 10000
            rem == (2^(12 - k) * ((e * PowMod625(48 + k)) % 625) + d) % ulp
            odd == (2^(13 - k) * ((e * PowMod625(47 + k)) % 625) + d) % (2 * ulp) >= ulp
            up == 2 * rem > ulp \/ (2 * rem = ulp /\ odd)
        IN  [e |-> e, d |-> IF up THEN d + ulp - rem ELSE d - rem]

\* One iteration of a scoring loop: score += weight * multiplier.
FieldScore(score, recipe_data, parsing_methods, field, weight) ==
    IF field \in DOMAIN recipe_data /\ Truthy(field, recipe_data[field])
    THEN FloatAdd(score, FloatProduct(weight, Multiplier(SourceOf(parsing_methods, field))))
    ELSE score

RECURSIVE ScoreLoop(_, _, _, _, _, _)
\* for field, weight in weights.items(): ...
ScoreLoop(score, recipe_data, parsing_methods, weights, order, i) ==
    IF i > Len(order) THEN score
    ELSE ScoreLoop(FieldScore(score, recipe_data, parsing_methods, order[i], weights[order[i]]),
                   recipe_data, parsing_methods, weights, order, i + 1)

\* round(score, 2), in hundredths: the hundredth nearest to the double's
\* exact value, an exact half going to the even hundredth.
Round2(score) ==
    LET q == score.e \div 100
        r == score.e % 100
    IN  IF r > 50 \/ (r = 50 /\ (score.d > 0 \/ (score.d = 0 /\ q % 2 = 1)))
        THEN q + 1 ELSE q

calculate_confidence_score(recipe_data) ==
    LET parsing_methods == Get(recipe_data, "parsing_methods", EmptyDict)
        required == ScoreLoop(FloatZero, recipe_data, parsing_methods,
                              required_weights, RequiredFields, 1)
        score == ScoreLoop(required, recipe_data, parsing_methods,
                           optional_weights, OptionalFields, 1)
    IN  Round2(score)

-----------------------------------------------------------------------------
(* What the network and the page give a strategy.                          *)

\* The URL handed to scrape_recipe.
Url == "https://example.com/recipe"

FieldOrder == RequiredFields \o OptionalFields

Position(f) == CHOOSE i \in DOMAIN FieldOrder : FieldOrder[i] = f

\* Per-field outcomes: the first n fields each have their own outcome from
\* C, the others a common one from R.
FieldOutcomes(C, R, n) ==
    {[f \in ScoredFields |-> IF Position(f) <= n THEN own[Position(f)] ELSE rest] :
        own \in [1..n -> C], rest \in R}

\* A scraper method returns a truthy value ("ok"), a falsy one ("empty"),
\* or raises ("exc").
ScraperPages ==
    FieldOutcomes({"ok", "empty", "exc"}, {"ok", "empty", "exc"}, NumFreeFields)

\* A key of the Recipe object is missing ("absent"), holds a truthy value
\* ("ok") or a falsy one ("empty").
RecipeItems ==
    FieldOutcomes({"ok", "empty", "absent"}, {"ok", "empty", "absent"}, NumFreeFields)

\* scrape_me(url), the page fetch or the search for a Recipe object fails.
Unavailable == [unavailable |-> TRUE]

IsUnavailable(env) == DOMAIN env = {"unavailable"}

RECURSIVE SelectFields(_, _, _)
\* The elements of order from position i on that are in keep, in order.
SelectFields(order, i, keep) ==
    IF i > Len(order) THEN << >>
    ELSE (IF order[i] \in keep THEN <<order[i]>> ELSE << >>)
         \o SelectFields(order, i + 1, keep)

-----------------------------------------------------------------------------
(* try_standard_scraping                                                   *)

\* The record built once scrape_me(url) and scraper.host() have succeeded.
StandardRecord(url, page) ==
    LET found == {f \in ScoredFields : page[f] = "ok"}
        parsing_methods ==
            [f \in found \cup Range(OptionalFields) |->
                IF page[f] = "ok" THEN "schema.org"
                ELSE IF page[f] = "empty" THEN "NOT_FOUND" ELSE "ERROR"]
        base == [k \in {"url", "host", "parsing_methods", "parse_timestamp"} \cup found |->
                    CASE k = "url" -> url
                      [] k = "host" -> "host"
                      [] k = "parsing_methods" -> parsing_methods
                      [] k = "parse_timestamp" -> "ts_standard"
                      [] OTHER -> "v_standard"]
        recipe_data == Put(base, "confidence_score", calculate_confidence_score(base))
        missing_required == SelectFields(RequiredFields, 1, ScoredFields \ found)
    IN  IF missing_required # << >>
        THEN Put(recipe_data, "missing_required", missing_required)
        ELSE recipe_data

\* A scraper whose first failing method call ends the whole extraction.
try_standard_scraping_abort(url, page) ==
    IF IsUnavailable(page) \/ \E f \in ScoredFields : page[f] = "exc" THEN None
    ELSE StandardRecord(url, page)

try_standard_scraping(url, page) ==
    IF IsUnavailable(page) THEN None ELSE StandardRecord(url, page)

-----------------------------------------------------------------------------
(* try_wild_mode_scraping                                                  *)

try_wild_mode_scraping(url, page) ==
    IF IsUnavailable(page) THEN None
    ELSE
    LET found == {f \in ScoredFields : page[f] = "ok"}
        parsing_methods ==
            [f \in {g \in ScoredFields : page[g] # "empty"} |->
                IF page[f] = "ok" THEN "wild_mode" ELSE "NOT_FOUND"]
        base == [k \in {"url", "host", "parsing_methods", "parse_timestamp"} \cup found |->
                    CASE k = "url" -> url
                      [] k = "host" -> "host"
                      [] k = "parsing_methods" -> parsing_methods
                      [] k = "parse_timestamp" -> "ts_wild"
                      [] OTHER -> "v_wild"]
    IN  Put(base, "confidence_score", calculate_confidence_score(base))

\* The order of wild_data.items(): the dict's insertion order.
WildFieldOrder ==
    <<"title", "ingredients", "instructions", "total_time", "yields",
      "image", "nutrients", "cuisine", "category">>

WildKeyOrder(wild_data) ==
    SelectFields(<<"url", "host", "parsing_methods", "parse_timestamp">>
                 \o WildFieldOrder \o <<"confidence_score">>, 1, DOMAIN wild_data)

-----------------------------------------------------------------------------
(* extract_json_ld and process_recipe_schema                               *)

process_recipe_schema(item, url) ==
    LET mapped == {f \in ScoredFields : item[f] # "absent"}
        parsing_methods == [f \in mapped |-> "json-ld"]
        base == [k \in {"url", "host", "parsing_methods", "parse_timestamp"} \cup mapped |->
                    CASE k = "url" -> url
                      [] k = "host" -> "host"
                      [] k = "parsing_methods" -> parsing_methods
                      [] k = "parse_timestamp" -> "ts_jsonld"
                      [] OTHER -> IF item[k] = "ok" THEN "v_jsonld" ELSE ""]
    IN  Put(base, "confidence_score", calculate_confidence_score(base))

extract_json_ld(url, item) ==
    IF IsUnavailable(item) THEN None ELSE process_recipe_schema(item, url)

-----------------------------------------------------------------------------
(* extract_recipe_with_gpt                                                 *)

\* failed: building the prompt raised, and the except branch returned None.
extract_recipe_with_gpt(html_content, failed) ==
    IF failed THEN None
    ELSE [title |-> "TODO", ingredients |-> "", instructions |-> "",
          parsing_methods |-> [all_fields |-> "gpt-fallback"],
          parse_timestamp |-> "ts_llm"]

\* The order of llm_data.items().
LlmKeyOrder(llm_data) ==
    SelectFields(<<"title", "ingredients", "instructions", "parsing_methods",
                   "parse_timestamp">>, 1, DOMAIN llm_data)

-----------------------------------------------------------------------------
(* scrape_recipe                                                           *)

VARIABLES
    pc,          \* where scrape_recipe stands: "stage1" .. "stage4", "terminal", "done"
    best_data,   \* the local best_data (None or a dict)
    best_score,  \* the local best_score
    pre,         \* best_data as it was when the latest merging stage (3 or 4) began
                 \* (in SpecStage2: when stage 2 began)
    incoming,    \* what the strategy of the latest merging stage returned
                 \* (in SpecStage2: what S2 returned)
    calls,       \* the strategy calls and raw-HTML fetches made so far, in order,
                 \* each with its outcome: "data", "none" or "raise" ("ok" for a fetch)
    result,      \* the value returned by scrape_recipe (None until it returns)
    exit,        \* the return statement taken: "", "HIGH1", "HIGH2", "MEDIUM",
                 \* "TERMINAL", "FAILED", "ERROR", or "RAISED" if it raised
    score_given, \* scorer alone: the dict as its caller built it
    score_arg,   \* scorer alone: that dict, as calculate_confidence_score leaves it
    score_ret,   \* scorer alone: the values returned so far, in call order
    notion,      \* lambda_handler: the module's Notion client is set (not None)
    page_info,   \* lambda_handler: what extract_notion_page_info returned
    rejected,    \* lambda_handler: the "return None" extract_notion_page_info
                 \* took: "", "format", "url", "page_id" or "exception"
    store,       \* lambda_handler: the calls made to the Notion API, in order
    caught,      \* lambda_handler: the exception its handler caught ("" if none)
    response,    \* lambda_handler: the value it returned (None until it returns)
    standard_page, \* S1 alone: what the page gives try_standard_scraping
    standard_ret,  \* S1 alone: what try_standard_scraping returned
    event_given,   \* extract_notion_page_info alone: the event it is given
    lookup_given   \* extract_notion_page_info alone: what the database query does

vars == <<pc, best_data, best_score, pre, incoming, calls, result, exit,
          score_given, score_arg, score_ret,
          notion, page_info, rejected, store, caught, response,
          standard_page, standard_ret, event_given, lookup_given>>

handler_vars == <<notion, page_info, rejected, store, caught, response>>

scorer_vars == <<score_given, score_arg, score_ret>>

standard_vars == <<standard_page, standard_ret>>

pageinfo_vars == <<event_given, lookup_given>>

scrape_vars == <<pc, best_data, best_score, pre, incoming, calls, result, exit>>

\* Thresholds, in hundredths.
HIGH == 80

MEDIUM == 60

LOW == 40

\* An exception leaves a call (a strategy replaced by one that throws, or a
\* fault no handler inside the strategy catches).
Raises == [raises |-> TRUE]

IsRaises(x) == DOMAIN x = {"raises"}

\* What the calls can return, over all pages.
StandardResults ==
    {try_standard_scraping(Url, page) : page \in ScraperPages \cup {Unavailable}}

JsonLdResults ==
    {extract_json_ld(Url, item) : item \in RecipeItems \cup {Unavailable}}

WildResults ==
    {try_wild_mode_scraping(Url, page) : page \in ScraperPages \cup {Unavailable}}

LlmResults == {extract_recipe_with_gpt("html", failed) : failed \in BOOLEAN}

Outcome(x) == IF IsRaises(x) THEN "raise" ELSE IF IsNone(x) THEN "none" ELSE "data"

Call(name, returned) == [name |-> name, out |-> Outcome(returned)]

\* scrape_recipe without its outer handler: the exception leaves it.
except_Exception_unhandled(url) == [returns |-> FALSE, value |-> None]

\* The outer "except Exception as e" clause of scrape_recipe.
except_Exception(url) ==
    [returns |-> TRUE,
     value |-> [error |-> "exception", url |-> url, parse_timestamp |-> "ts_error",
                parsing_methods |-> [all_fields |-> "ERROR"], confidence_score |-> 0]]

\* A final return that hands back best_data, None, as it is.
AllFailed_none(url) == None

\* The final return of scrape_recipe when best_data is None.
AllFailed(url) ==
    [error |-> "All extraction methods failed", url |-> url, confidence_score |-> 0]

\* A merge that writes every field of the later result.
MergeField_overwrite(best, field, value, tag) ==
    LET filled == Put(best, field, value)
    IN  Put(filled, "parsing_methods", Put(filled["parsing_methods"], field, tag))

\* A merge that tags every field of the later result, filled or kept.
MergeField_retag(best, field, value, tag) ==
    LET filled == IF field \notin DOMAIN best \/ ~Truthy(field, best[field])
                  THEN Put(best, field, value) ELSE best
    IN  Put(filled, "parsing_methods", Put(filled["parsing_methods"], field, tag))

\* A merge that fills the gaps and leaves the provenance map alone.
MergeField_untagged(best, field, value, tag) ==
    IF field \notin DOMAIN best \/ ~Truthy(field, best[field])
    THEN Put(best, field, value)
    ELSE best

\* One iteration of a merge loop.
MergeField(best, field, value, tag) ==
    IF field \notin DOMAIN best \/ ~Truthy(field, best[field])
    THEN LET filled == Put(best, field, value)
         IN  Put(filled, "parsing_methods", Put(filled["parsing_methods"], field, tag))
    ELSE best

RECURSIVE MergeLoop(_, _, _, _, _)
\* for field, value in other.items(): ...
MergeLoop(best, other, order, i, tag) ==
    IF i > Len(order) THEN best
    ELSE MergeLoop(MergeField(best, order[i], other[order[i]], tag), other, order, i + 1, tag)

\* A merge that keeps the score it found.
Recalculate_skipped(data) == data

\* best_data["confidence_score"] = calculate_confidence_score(best_data)
Recalculate(data) == Put(data, "confidence_score", calculate_confidence_score(data))

MergeWild(best, wild_data) ==
    Recalculate(MergeLoop(best, wild_data, WildKeyOrder(wild_data), 1, "wild_mode"))

MergeLlm(best, llm_data) ==
    Recalculate(MergeLoop(best, llm_data, LlmKeyOrder(llm_data), 1, "llm"))

\* best_data = llm_data; best_data["url"] = url; recompute the score.
AdoptLlm(llm_data, url) == Recalculate(Put(llm_data, "url", url))

\* The early return tested with > in place of >=.
IsHigh_strict(score) == score > HIGH

\* score >= 0.8, the test of the two early returns of steps 1 and 2.
IsHigh(score) == score >= HIGH

\* The return of step 3 tested with > in place of >=.
IsMedium_strict(score) == score > MEDIUM

\* best_data["confidence_score"] >= 0.6, the test of the return of step 3.
IsMedium(score) == score >= MEDIUM

\* The test of step 4 made against the HIGH threshold.
NeedsLlm_high(data, score) == IsNone(data) \/ score < HIGH

\* The test of step 4 made against the MEDIUM threshold.
NeedsLlm_medium(data, score) == IsNone(data) \/ score < MEDIUM

\* not best_data or best_score < 0.4, the test of step 4.
NeedsLlm(data, score) == IsNone(data) \/ score < LOW

\* The warning decided by the MEDIUM threshold.
WithWarning_medium(data) ==
    IF data["confidence_score"] < MEDIUM
    THEN Put(data, "warning", "Low confidence in extracted data")
    ELSE data

\* The warning attached at the final return.
WithWarning(data) ==
    IF data["confidence_score"] < LOW
    THEN Put(data, "warning", "Low confidence in extracted data")
    ELSE data

Init ==
    /\ pc = "stage1"
    /\ best_data = None
    /\ best_score = 0
    /\ pre = None
    /\ incoming = None
    /\ calls = << >>
    /\ result = None
    /\ exit = ""
    /\ score_given = None
    /\ score_arg = None
    /\ score_ret = << >>
    /\ notion = TRUE
    /\ page_info = None
    /\ rejected = ""
    /\ store = << >>
    /\ caught = ""
    /\ response = None
    /\ standard_page = Unavailable
    /\ standard_ret = None
    /\ event_given = None
    /\ lookup_given = ""

\* A return after which the cascade starts again.
Return_restart(value, how) ==
    /\ result' = value
    /\ exit' = how
    /\ pc' = "stage1"

\* A return statement of scrape_recipe.
Return(value, how) ==
    /\ result' = value
    /\ exit' = how
    /\ pc' = "done"

\* An exception reaches the outer handler.
Fault ==
    LET handled == except_Exception(Url)
    IN  IF handled.returns
        THEN Return(handled.value, "ERROR")
        ELSE /\ pc' = "done"
             /\ exit' = "RAISED"
             /\ result' = None

\* A cascade that goes to the final return after any stage.
Continue_halt(next) ==
    /\ pc' = "terminal"
    /\ UNCHANGED <<result, exit>>

\* No return was taken: control goes on to the next step.
Continue(next) ==
    /\ pc' = next
    /\ UNCHANGED <<result, exit>>

\* Step 1: try_standard_scraping.
Stage1 ==
    /\ pc = "stage1"
    /\ UNCHANGED <<pre, incoming>>
    /\ UNCHANGED scorer_vars
    /\ UNCHANGED standard_vars
    /\ UNCHANGED pageinfo_vars
    /\ UNCHANGED handler_vars
    /\ \E recipe_data \in StandardResults \cup {Raises} :
        /\ calls' = Append(calls, Call("S1", recipe_data))
        /\ IF IsRaises(recipe_data)
           THEN /\ UNCHANGED <<best_data, best_score>>
                /\ Fault
           ELSE IF IsNone(recipe_data)
           THEN /\ UNCHANGED <<best_data, best_score>>
                /\ Continue("stage2")
           ELSE IF IsHigh(recipe_data["confidence_score"])
           THEN /\ UNCHANGED <<best_data, best_score>>
                /\ Return(recipe_data, "HIGH1")
           ELSE /\ best_data' = recipe_data
                /\ best_score' = recipe_data["confidence_score"]
                /\ Continue("stage2")

\* An adoption test that lets S2 win ties.
Adopts_ties(best, score_of_best, score) == IsNone(best) \/ score >= score_of_best

\* not best_data or score > best_score, the adoption test of step 2.
Adopts(best, score_of_best, score) == IsNone(best) \/ score > score_of_best

\* Step 2 from the return of extract_json_ld on.
AfterJsonLd(json_ld_data) ==
    /\ calls' = Append(calls, Call("S2", json_ld_data))
    /\ IF IsRaises(json_ld_data)
       THEN /\ UNCHANGED <<best_data, best_score>>
            /\ Fault
       ELSE IF IsNone(json_ld_data)
       THEN /\ UNCHANGED <<best_data, best_score>>
            /\ Continue("stage3")
       ELSE IF IsHigh(json_ld_data["confidence_score"])
       THEN /\ UNCHANGED <<best_data, best_score>>
            /\ Return(json_ld_data, "HIGH2")
       ELSE IF Adopts(best_data, best_score, json_ld_data["confidence_score"])
       THEN /\ best_data' = json_ld_data
            /\ best_score' = json_ld_data["confidence_score"]
            /\ Continue("stage3")
       ELSE /\ UNCHANGED <<best_data, best_score>>
            /\ Continue("stage3")

\* Step 2: extract_json_ld.
Stage2 ==
    /\ pc = "stage2"
    /\ UNCHANGED <<pre, incoming>>
    /\ UNCHANGED scorer_vars
    /\ UNCHANGED standard_vars
    /\ UNCHANGED pageinfo_vars
    /\ UNCHANGED handler_vars
    /\ IF IsNone(best_data) \/ ~IsHigh(best_score)
       THEN \E json_ld_data \in JsonLdResults \cup {Raises} : AfterJsonLd(json_ld_data)
       ELSE /\ UNCHANGED <<best_data, best_score, calls>>
            /\ Continue("stage3")

\* Step 3: try_wild_mode_scraping and the gap-filling merge.
Stage3 ==
    /\ pc = "stage3"
    /\ UNCHANGED scorer_vars
    /\ UNCHANGED standard_vars
    /\ UNCHANGED pageinfo_vars
    /\ UNCHANGED handler_vars
    /\ pre' = best_data
    /\ \E wild_data \in WildResults \cup {Raises} :
        /\ calls' = Append(calls, Call("S3", wild_data))
        /\ incoming' = wild_data
        /\ IF IsRaises(wild_data)
           THEN /\ UNCHANGED <<best_data, best_score>>
                /\ Fault
           ELSE IF IsNone(wild_data)
           THEN /\ UNCHANGED <<best_data, best_score>>
                /\ Continue("stage4")
           ELSE IF ~IsNone(best_data)
           THEN LET merged == MergeWild(best_data, wild_data)
                IN  /\ best_data' = merged
                    /\ UNCHANGED best_score
                    /\ IF IsMedium(merged["confidence_score"])
                       THEN Return(merged, "MEDIUM")
                       ELSE Continue("stage4")
           ELSE /\ best_data' = wild_data
                /\ best_score' = wild_data["confidence_score"]
                /\ Continue("stage4")

\* Step 4: the raw-HTML fetch and extract_recipe_with_gpt, inside their own
\* try block, whose handler logs and goes on.
Stage4 ==
    /\ pc = "stage4"
    /\ UNCHANGED scorer_vars
    /\ UNCHANGED standard_vars
    /\ UNCHANGED pageinfo_vars
    /\ UNCHANGED handler_vars
    /\ pre' = best_data
    /\ UNCHANGED best_score
    /\ Continue("terminal")
    /\ IF NeedsLlm(best_data, best_score)
       THEN \E get \in {"ok", "raise"}, llm_data \in LlmResults \cup {Raises} :
            IF get = "raise"
            THEN /\ calls' = Append(calls, [name |-> "fetch", out |-> "raise"])
                 /\ incoming' = None
                 /\ UNCHANGED best_data
            ELSE /\ calls' = calls \o <<[name |-> "fetch", out |-> "ok"],
                                        Call("S4", llm_data)>>
                 /\ incoming' = llm_data
                 /\ best_data' =
                        IF IsRaises(llm_data) \/ IsNone(llm_data) THEN best_data
                        ELSE IF ~IsNone(best_data) THEN MergeLlm(best_data, llm_data)
                        ELSE AdoptLlm(llm_data, Url)
       ELSE /\ incoming' = None
            /\ UNCHANGED <<best_data, calls>>

\* The final return.
Terminal ==
    /\ pc = "terminal"
    /\ UNCHANGED scorer_vars
    /\ UNCHANGED standard_vars
    /\ UNCHANGED pageinfo_vars
    /\ UNCHANGED handler_vars
    /\ UNCHANGED <<best_data, best_score, pre, incoming, calls>>
    /\ IF ~IsNone(best_data)
       THEN Return(WithWarning(best_data), "TERMINAL")
       ELSE Return(AllFailed(Url), "FAILED")

Next == Stage1 \/ Stage2 \/ Stage3 \/ Stage4 \/ Terminal

Spec == Init /\ [][Next]_vars

-----------------------------------------------------------------------------
(* The scorer alone: calculate_confidence_score called on arbitrary dicts. *)

\* What a dict holds for one field: <<value, tag>>.  The value is "absent"
\* (no key), "empty" (a falsy value) or "ok" (a truthy one); the tag is the
\* field's entry in parsing_methods, "-" for no entry.  "gpt-fallback" is a
\* tag source_multipliers does not know.
ScoreChoices ==
    {<<"ok", t>> : t \in {"schema.org", "json-ld", "wild_mode", "llm", "NOT_FOUND",
                          "ERROR", "gpt-fallback", "-"}}
    \cup {<<"absent", "-">>, <<"absent", "NOT_FOUND">>, <<"empty", "schema.org">>,
          <<"blank", "schema.org">>}

\* A field is a value ("v"), an empty value ("": an empty list or string), a
\* whitespace-only value (" ": a string of blanks or a list of such strings),
\* or missing from the dict.
ScoreDict(choice) ==
    LET has == {f \in ScoredFields : choice[f][1] # "absent"}
        tagged == {f \in ScoredFields : choice[f][2] # "-"}
    IN  [k \in has \cup {"parsing_methods"} |->
            IF k = "parsing_methods" THEN [f \in tagged |-> choice[f][2]]
            ELSE IF choice[k][1] = "ok" THEN "v"
            ELSE IF choice[k][1] = "blank" THEN " " ELSE ""]

\* The dicts handed to the scorer, a dict with no parsing_methods key, and
\* the record of extract_recipe_with_gpt.
ScoreInputs ==
    {ScoreDict(choice) :
        choice \in FieldOutcomes(ScoreChoices,
                                 {<<"absent", "-">>, <<"ok", "schema.org">>,
                                  <<"ok", "gpt-fallback">>, <<"ok", "-">>},
                                 NumFreeFields)}
    \cup {[title |-> "v", ingredients |-> "v"]}
    \cup {extract_recipe_with_gpt("html", FALSE)}

InitScore ==
    /\ pc = "scorer"
    /\ best_data = None
    /\ best_score = 0
    /\ pre = None
    /\ incoming = None
    /\ calls = << >>
    /\ result = None
    /\ exit = ""
    /\ score_given \in ScoreInputs
    /\ score_arg = score_given
    /\ score_ret = << >>
    /\ notion = TRUE
    /\ page_info = None
    /\ rejected = ""
    /\ store = << >>
    /\ caught = ""
    /\ response = None
    /\ standard_page = Unavailable
    /\ standard_ret = None
    /\ event_given = None
    /\ lookup_given = ""

\* A call of calculate_confidence_score(score_arg), made twice on each dict:
\* it reads recipe_data and stores into none of its keys.
ScoreCall ==
    /\ pc = "scorer"
    /\ Len(score_ret) < 2
    /\ score_ret' = Append(score_ret, calculate_confidence_score(score_arg))
    /\ UNCHANGED <<score_given, score_arg>>
    /\ UNCHANGED scrape_vars
    /\ UNCHANGED standard_vars
    /\ UNCHANGED pageinfo_vars
    /\ UNCHANGED handler_vars

NextScore == ScoreCall

SpecScore == InitScore /\ [][NextScore]_vars

-----------------------------------------------------------------------------
(* S1 alone: try_standard_scraping called on every page.                   *)

InitStandard ==
    /\ pc = "standard"
    /\ best_data = None
    /\ best_score = 0
    /\ pre = None
    /\ incoming = None
    /\ calls = << >>
    /\ result = None
    /\ exit = ""
    /\ score_given = None
    /\ score_arg = None
    /\ score_ret = << >>
    /\ notion = TRUE
    /\ page_info = None
    /\ rejected = ""
    /\ store = << >>
    /\ caught = ""
    /\ response = None
    /\ standard_page \in ScraperPages \cup {Unavailable}
    /\ standard_ret = None
    /\ event_given = None
    /\ lookup_given = ""

\* try_standard_scraping(url) returns.
StandardCall ==
    /\ pc = "standard"
    /\ pc' = "returned"
    /\ standard_ret' = try_standard_scraping(Url, standard_page)
    /\ UNCHANGED standard_page
    /\ UNCHANGED pageinfo_vars
    /\ UNCHANGED <<best_data, best_score, pre, incoming, calls, result, exit>>
    /\ UNCHANGED scorer_vars
    /\ UNCHANGED handler_vars

NextStandard == StandardCall

SpecStandard == InitStandard /\ [][NextStandard]_vars

-----------------------------------------------------------------------------
(* Stage 2 observed.                                                       *)

\* Step 2, with what it had and what it got kept for inspection: pre is
\* best_data as step 2 found it, incoming what extract_json_ld returned.
Stage2Observed ==
    /\ pc = "stage2"
    /\ UNCHANGED scorer_vars
    /\ UNCHANGED standard_vars
    /\ UNCHANGED pageinfo_vars
    /\ UNCHANGED handler_vars
    /\ pre' = best_data
    /\ IF IsNone(best_data) \/ ~IsHigh(best_score)
       THEN \E json_ld_data \in JsonLdResults \cup {Raises} :
            /\ AfterJsonLd(json_ld_data)
            /\ incoming' = json_ld_data
       ELSE /\ UNCHANGED <<best_data, best_score, calls, incoming>>
            /\ Continue("stage3")

\* scrape_recipe up to the end of step 2.
NextStage2 == Stage1 \/ Stage2Observed

SpecStage2 == Init /\ [][NextStage2]_vars

\* scrape_recipe is sequential code: a step that can be taken is taken.
LiveSpec == Spec /\ WF_vars(Next)

-----------------------------------------------------------------------------
(* The webhook event and extract_notion_page_info.                         *)

\* urlparse(url): the scheme and the network location of the URLs used here.
urlparse(url) ==
    CASE url = Url -> [scheme |-> "https", netloc |-> "example.com"]
      [] url = "ftp://example.com/recipe" -> [scheme |-> "ftp", netloc |-> "example.com"]
      [] url = "https://" -> [scheme |-> "https", netloc |-> ""]
      [] OTHER -> [scheme |-> "", netloc |-> ""]

is_valid_url(url) ==
    urlparse(url).scheme \in {"http", "https"} /\ urlparse(url).netloc # ""

\* The values of the Link property; "" stands for a null or empty one.
Urls == {Url, "ftp://example.com/recipe", "https://", "recipe", ""}

\* The events: how the payload is wrapped ("body_badjson": a body string that
\* is not JSON), which key holds the page, the shape of the Link property
\* ("rich_empty": an empty rich_text list; "untyped": neither form), the
\* "Unique ID" property ("CB-None": no number) and the page's own id.
Events ==
    [wrapper : {"direct", "body_dict", "body_json", "body_badjson"},
     format : {"data", "page", "neither"},
     link : {"absent", "url", "rich_text", "rich_empty", "untyped"},
     url : Urls,
     unique_id : {"absent", "CB-11", "CB-None"},
     id : {"", "page_direct"}]

\* What notion.databases.query does: a page, no page, or an exception.
LookupOutcomes == {"found", "none", "raise"}

\* A call made to the Notion API.
StoreCall(op, page, ok, title) == [op |-> op, page |-> page, ok |-> ok, title |-> title]

\* Returns the page id ("" for None) and the API calls made.
get_page_id_from_unique_id(unique_id, lookup) ==
    IF ~notion THEN [page_id |-> "", store |-> << >>]
    ELSE IF unique_id # "CB-11" THEN [page_id |-> "", store |-> << >>]
    ELSE [page_id |-> IF lookup = "found" THEN "page_by_uid" ELSE "",
          store |-> <<StoreCall("query", "", lookup # "raise", "")>>]

\* url = properties["Link"]...: "" when the property gives none.
LinkUrl(event) == IF event.link \in {"url", "rich_text"} THEN event.url ELSE ""

\* The "Unique ID" block: the looked-up page id, if the property is there.
ResolvePageId(event, lookup) ==
    IF event.unique_id # "absent"
    THEN get_page_id_from_unique_id(event.unique_id, lookup)
    ELSE [page_id |-> "", store |-> << >>]

\* The page id of the payload preferred to the one looked up.
TargetPage_own(looked_up, own) == IF own # "" THEN own ELSE looked_up

\* get_page_id_from_unique_id(unique_id) or page_id
TargetPage(looked_up, own) == IF looked_up # "" THEN looked_up ELSE own

\* An extraction that resolves the page id before it looks at the URL.
extract_notion_page_info_eager(event, lookup) ==
    LET resolved == ResolvePageId(event, lookup)
        reject(why) == [info |-> None, rejected |-> why, store |-> resolved.store]
        url == LinkUrl(event)
        page_id == TargetPage(resolved.page_id, event.id)
    IN  IF event.wrapper = "body_badjson" THEN [info |-> None, rejected |-> "exception",
                                                 store |-> << >>]
        ELSE IF event.format = "neither" THEN [info |-> None, rejected |-> "format",
                                               store |-> << >>]
        ELSE IF event.link = "rich_empty" THEN reject("exception")
        ELSE IF url = "" \/ ~is_valid_url(url) THEN reject("url")
        ELSE IF page_id = "" THEN reject("page_id")
        ELSE [info |-> [page_id |-> page_id, url |-> url], rejected |-> "",
              store |-> resolved.store]

\* Returns the (page_id, url) pair or None, the "return None" taken, and the
\* API calls made.
extract_notion_page_info(event, lookup) ==
    LET reject(why) == [info |-> None, rejected |-> why, store |-> << >>]
        url == LinkUrl(event)
        resolved == ResolvePageId(event, lookup)
        page_id == TargetPage(resolved.page_id, event.id)
    IN  IF event.wrapper = "body_badjson" THEN reject("exception")
        ELSE IF event.format = "neither" THEN reject("format")
        ELSE IF event.link = "rich_empty" THEN reject("exception")
        ELSE IF url = "" \/ ~is_valid_url(url) THEN reject("url")
        ELSE IF page_id = ""
        THEN [info |-> None, rejected |-> "page_id", store |-> resolved.store]
        ELSE [info |-> [page_id |-> page_id, url |-> url], rejected |-> "",
              store |-> resolved.store]

\* extract_notion_page_info alone, on every event.
InitPageInfo ==
    /\ pc = "extract"
    /\ best_data = None
    /\ best_score = 0
    /\ pre = None
    /\ incoming = None
    /\ calls = << >>
    /\ result = None
    /\ exit = ""
    /\ score_given = None
    /\ score_arg = None
    /\ score_ret = << >>
    /\ notion \in BOOLEAN
    /\ page_info = None
    /\ rejected = ""
    /\ store = << >>
    /\ caught = ""
    /\ response = None
    /\ standard_page = Unavailable
    /\ standard_ret = None
    /\ event_given \in Events
    /\ lookup_given \in LookupOutcomes

\* extract_notion_page_info(event) returns.
PageInfoCall ==
    /\ pc = "extract"
    /\ pc' = "extracted"
    /\ LET got == extract_notion_page_info(event_given, lookup_given)
       IN  /\ page_info' = got.info
           /\ rejected' = got.rejected
           /\ store' = store \o got.store
    /\ UNCHANGED <<notion, caught, response>>
    /\ UNCHANGED <<best_data, best_score, pre, incoming, calls, result, exit>>
    /\ UNCHANGED scorer_vars
    /\ UNCHANGED standard_vars
    /\ UNCHANGED pageinfo_vars

NextPageInfo == PageInfoCall

SpecPageInfo == InitPageInfo /\ [][NextPageInfo]_vars

-----------------------------------------------------------------------------
(* update_notion_page and lambda_handler                                   *)

\* What can go wrong in one update_notion_page: nothing, a Notion call that
\* raises (properties, cover, the listing and deleting of old blocks, the
\* appending of new ones), or create_notion_blocks raising on the values.
UpdateFaults == {"none", "properties", "cover", "cleanup", "render", "append"}

\* A validation that asks for the title only.
HasTitleAndHost_title(recipe_data) == Get(recipe_data, "title", "") # ""

\* recipe_data.get("title") and recipe_data.get("host")
HasTitleAndHost(recipe_data) ==
    Get(recipe_data, "title", "") # "" /\ Get(recipe_data, "host", "") # ""

\* Returns the exception raised ("" if none) and the API calls made.
update_notion_page(page_id, recipe_data, fault) ==
    LET properties == StoreCall("properties", page_id, fault # "properties",
                                Get(recipe_data, "title", ""))
        cover == IF Get(recipe_data, "image", "") # ""
                 THEN <<StoreCall("cover", page_id, fault # "cover", "")>> ELSE << >>
        cleanup == <<StoreCall("cleanup", page_id, fault # "cleanup", "")>>
        append == <<StoreCall("append", page_id, fault # "append", "")>>
    IN  IF ~notion
        THEN [raised |-> "Notion client not initialized", store |-> << >>]
        ELSE IF ~HasTitleAndHost(recipe_data)
        THEN [raised |-> "Recipe data must include title and host", store |-> << >>]
        ELSE IF fault = "properties"
        THEN [raised |-> "properties", store |-> <<properties>>]
        ELSE IF fault = "render"
        THEN [raised |-> "render", store |-> <<properties>> \o cover \o cleanup]
        ELSE [raised |-> IF fault = "append" THEN "append" ELSE "",
              store |-> <<properties>> \o cover \o cleanup \o append]

\* The record lambda_handler writes when scrape_recipe returned nothing.
ParsingFailed(url) ==
    [title |-> "Recipe Parsing Failed", host |-> url, url |-> url,
     parse_timestamp |-> "ts_handler", parsing_methods |-> [all_fields |-> "ERROR"],
     confidence_score |-> 0, error |-> "Failed to extract any recipe data"]

\* An error record without a title.
ProcessingError_untitled(url, e) ==
    [title |-> "", host |-> url, url |-> url,
     parse_timestamp |-> "ts_handler", parsing_methods |-> [all_fields |-> "ERROR"],
     confidence_score |-> 0, error |-> e]

\* The record the handler of lambda_handler writes.
ProcessingError(url, e) ==
    [title |-> "Processing Error", host |-> url, url |-> url,
     parse_timestamp |-> "ts_handler", parsing_methods |-> [all_fields |-> "ERROR"],
     confidence_score |-> 0, error |-> e]

BadRequest ==
    [statusCode |-> 400, body |-> [error |-> "Failed to extract page info from event"]]

Processed(page_id, url, recipe_data) ==
    [statusCode |-> 200,
     body |-> [message |-> "Successfully processed recipe", page_id |-> page_id,
               url |-> url, confidence_score |-> Get(recipe_data, "confidence_score", 0)]]

\* A handler that answers with a server error.
ErrorResponse_500(e) ==
    [statusCode |-> 500, body |-> [message |-> "Created error page in Notion", error |-> e]]

\* The response of the handler of lambda_handler.
ErrorResponse(e) ==
    [statusCode |-> 200, body |-> [message |-> "Created error page in Notion", error |-> e]]

\* lambda_handler is invoked: the client is set or not, nothing else has
\* happened.
InitHandler ==
    /\ pc = "handler"
    /\ best_data = None
    /\ best_score = 0
    /\ pre = None
    /\ incoming = None
    /\ calls = << >>
    /\ result = None
    /\ exit = ""
    /\ score_given = None
    /\ score_arg = None
    /\ score_ret = << >>
    /\ notion \in BOOLEAN
    /\ page_info = None
    /\ rejected = ""
    /\ store = << >>
    /\ caught = ""
    /\ response = None
    /\ standard_page = Unavailable
    /\ standard_ret = None
    /\ event_given = None
    /\ lookup_given = ""

\* extract_notion_page_info(event) and the 400 return; otherwise
\* scrape_recipe(url) begins: a pair it returns has a page id and a URL that
\* is_valid_url accepts, so the two tests that follow in lambda_handler pass.
ExtractPageInfo ==
    /\ pc = "handler"
    /\ UNCHANGED scorer_vars
    /\ UNCHANGED standard_vars
    /\ UNCHANGED pageinfo_vars
    /\ UNCHANGED <<best_data, best_score, pre, incoming, calls, result, exit>>
    /\ UNCHANGED <<notion, caught>>
    /\ \E event \in Events, lookup \in LookupOutcomes :
        LET got == extract_notion_page_info(event, lookup)
        IN  /\ page_info' = got.info
            /\ rejected' = got.rejected
            /\ store' = store \o got.store
            /\ IF IsNone(got.info)
               THEN /\ response' = BadRequest
                    /\ pc' = "responded"
               ELSE /\ response' = response
                    /\ pc' = "stage1"

\* scrape_recipe has returned (its locals are gone): update_notion_page with
\* the record, then the 200 return, or the exception reaches the handler.
UpdatePage ==
    /\ pc = "done"
    /\ ~IsNone(page_info)
    /\ UNCHANGED scorer_vars
    /\ UNCHANGED standard_vars
    /\ UNCHANGED pageinfo_vars
    /\ UNCHANGED <<calls, result, exit>>
    /\ UNCHANGED <<notion, page_info, rejected>>
    /\ best_data' = None
    /\ best_score' = 0
    /\ pre' = None
    /\ incoming' = None
    /\ IF exit = "RAISED"
       THEN /\ caught' = "scrape_recipe"
            /\ pc' = "except"
            /\ UNCHANGED <<store, response>>
       ELSE \E fault \in UpdateFaults :
            LET recipe_data == IF IsNone(result) THEN ParsingFailed(page_info.url)
                               ELSE result
                updated == update_notion_page(page_info.page_id, recipe_data, fault)
            IN  /\ store' = store \o updated.store
                /\ IF updated.raised # ""
                   THEN /\ caught' = updated.raised
                        /\ pc' = "except"
                        /\ response' = response
                   ELSE /\ caught' = caught
                        /\ pc' = "responded"
                        /\ response' = Processed(page_info.page_id, page_info.url,
                                                 recipe_data)

\* The handler of lambda_handler: an error page is tried, whatever it raises
\* is logged, and the 200 response with the error is returned.
ErrorPage ==
    /\ pc = "except"
    /\ UNCHANGED scorer_vars
    /\ UNCHANGED standard_vars
    /\ UNCHANGED pageinfo_vars
    /\ UNCHANGED <<best_data, best_score, pre, incoming, calls, result, exit>>
    /\ UNCHANGED <<notion, page_info, rejected, caught>>
    /\ \E fault \in UpdateFaults :
        LET error_data == ProcessingError(page_info.url, caught)
            updated == update_notion_page(page_info.page_id, error_data, fault)
        IN  store' = store \o updated.store
    /\ response' = ErrorResponse(caught)
    /\ pc' = "responded"

NextHandler ==
    \/ ExtractPageInfo
    \/ Stage1
    \/ Stage2
    \/ Stage3
    \/ Stage4
    \/ Terminal
    \/ UpdatePage
    \/ ErrorPage

SpecHandler == InitHandler /\ [][NextHandler]_vars

-----------------------------------------------------------------------------
(* Properties of scrape_recipe (specification Spec).                       *)

CallNames == [i \in DOMAIN calls |-> calls[i].name]

Called(name) == \E i \in DOMAIN calls : calls[i].name = name

\* The entry of field f in the dict's parsing_methods, "-" for none.
Tag(data, f) == Get(Get(data, "parsing_methods", EmptyDict), f, "-")

Has(data, f) == f \in DOMAIN data /\ Truthy(f, data[f])

\* scrape_recipe has returned a record that carries data, not an error.
ReturnedData == pc = "done" /\ exit \in {"HIGH1", "HIGH2", "MEDIUM", "TERMINAL"}

\* The record of the outer handler.
IsFaultRecord(r) ==
    /\ ~IsNone(r)
    /\ "error" \in DOMAIN r
    /\ r["confidence_score"] = 0
    /\ r["parsing_methods"] = [all_fields |-> "ERROR"]

\* C1: scrape_recipe never lets an exception out: whatever the strategies and
\* the raw-HTML fetch do, raising included, a finished run has returned a
\* record; and when an exception leaves a stage (S1, S2 or S3 raises; stage 4
\* catches its own) the run ends at once with the record of the outer handler:
\* confidence_score 0.0, an error, provenance {"all_fields": "ERROR"}.
C1_NeverPropagates ==
    /\ exit # "RAISED"
    /\ pc = "done" => ~IsNone(result) /\ "confidence_score" \in DOMAIN result
    /\ (\E i \in DOMAIN calls : calls[i].name \in {"S1", "S2", "S3"} /\ calls[i].out = "raise")
          => pc = "done" /\ exit = "ERROR"
    /\ exit = "ERROR" => IsFaultRecord(result)
    /\ (\E i \in DOMAIN calls : calls[i].name \in {"fetch", "S4"} /\ calls[i].out = "raise")
          => pc \in {"terminal", "done"} /\ exit \in {"", "TERMINAL", "FAILED"}

\* S1 and S2 produced data, then S3 raised, and the fault record came back.
C1_Witness ==
    /\ pc = "done"
    /\ exit = "ERROR"
    /\ Len(calls) = 3
    /\ calls[1].out = "data" /\ calls[2].out = "data" /\ calls[3].out = "raise"
    /\ IsFaultRecord(result)

\* C2: a returned data record in which title or ingredients is absent or
\* empty has a confidence_score below 0.4 and carries a warning.
C2_RequiredFieldsWarned ==
    ReturnedData /\ (~Has(result, "title") \/ ~Has(result, "ingredients"))
        => result["confidence_score"] < LOW /\ "warning" \in DOMAIN result

\* C3: the HIGH early exit.  A return from stage 1 hands back S1's own record,
\* scored at least 0.8, without a warning, with S1 the only call made; a
\* return from stage 2 hands back S2's own record likewise, after S1 and S2
\* only; and no record scored 0.8 or more is kept as best_data for the later
\* stages instead of being returned.
C3_HighEarlyExit ==
    /\ exit = "HIGH1" =>
          /\ calls = <<[name |-> "S1", out |-> "data"]>>
          /\ result["confidence_score"] >= HIGH
          /\ "warning" \notin DOMAIN result
          /\ result["parse_timestamp"] = "ts_standard"
          /\ \A f \in ScoredFields \cap DOMAIN result :
                result[f] = "v_standard" /\ Tag(result, f) = "schema.org"
    /\ exit = "HIGH2" =>
          /\ CallNames = <<"S1", "S2">>
          /\ calls[2].out = "data"
          /\ result["confidence_score"] >= HIGH
          /\ "warning" \notin DOMAIN result
          /\ result["parse_timestamp"] = "ts_jsonld"
          /\ \A f \in ScoredFields \cap DOMAIN result :
                result[f] \in {"v_jsonld", ""} /\ Tag(result, f) = "json-ld"
    /\ pc \in {"stage2", "stage3"} /\ ~IsNone(best_data)
          => best_data["confidence_score"] < HIGH /\ best_score < HIGH
    /\ pc = "stage2" => CallNames = <<"S1">>
    /\ pc = "stage3" => CallNames = <<"S1", "S2">>

\* S1 produced data scored under 0.8, and stage 2 then returned S2's record.
C3_Witness ==
    /\ pc = "done"
    /\ exit = "HIGH2"
    /\ calls[1].out = "data"
    /\ result["confidence_score"] >= HIGH
    /\ ~IsNone(best_data)

\* C4: the raw-HTML fetch and S4 are invoked only if, stage 3 being over,
\* there is no best data or the score of best_data is below 0.4.
C4_LlmOnlyBelowLow ==
    Called("fetch") => IsNone(pre) \/ pre["confidence_score"] < LOW

\* C5: a merge never overwrites.  Every scored field that best_data held with
\* a truthy value when stage 3 or stage 4 began has the same value and the
\* same provenance entry when the stage is over.
C5_MergeNeverOverwrites ==
    \A f \in ScoredFields :
        ~IsNone(pre) /\ Has(pre, f)
            => /\ ~IsNone(best_data)
               /\ Has(best_data, f)
               /\ best_data[f] = pre[f]
               /\ Tag(best_data, f) = Tag(pre, f)

\* S3 offered another title; the merge kept the first and filled ingredients.
C5_Witness ==
    /\ ~IsNone(pre)
    /\ Outcome(incoming) = "data"
    /\ Has(pre, "title") /\ pre["title"] = "v_standard"
    /\ ~Has(pre, "ingredients")
    /\ Has(incoming, "title") /\ incoming["title"] = "v_wild"
    /\ ~IsNone(best_data)
    /\ best_data["title"] = "v_standard" /\ Tag(best_data, "title") = "schema.org"
    /\ Has(best_data, "ingredients")
    /\ best_data["ingredients"] = "v_wild" /\ Tag(best_data, "ingredients") = "wild_mode"

\* C6: a returned data record carries the warning "Low confidence in
\* extracted data" if and only if its confidence_score is below 0.4; the
\* records of the HIGH and MEDIUM early exits score at least 0.8 and 0.6.
C6_WarningIffLow ==
    ReturnedData =>
        /\ "warning" \in DOMAIN result <=> result["confidence_score"] < LOW
        /\ "warning" \in DOMAIN result
              => result["warning"] = "Low confidence in extracted data"
        /\ exit \in {"HIGH1", "HIGH2"} => result["confidence_score"] >= HIGH
        /\ exit = "MEDIUM" => result["confidence_score"] >= MEDIUM

\* A final return of a record scored above 0 and below 0.4, with the warning.
C6_Witness ==
    /\ pc = "done"
    /\ exit = "TERMINAL"
    /\ result["confidence_score"] > 0
    /\ result["confidence_score"] < LOW
    /\ "warning" \in DOMAIN result

\* C7: total failure.  When S1, S2 and S3 returned nothing and S4 returned
\* nothing, raised or could not run because the fetch failed, scrape_recipe
\* returns the record with error "All extraction methods failed" and
\* confidence_score 0.0, not None.
C7_TotalFailure ==
    (/\ pc = "done"
     /\ \A i \in DOMAIN calls :
           /\ calls[i].out # "data"
           /\ calls[i].name \in {"S1", "S2", "S3"} => calls[i].out = "none")
        => /\ ~IsNone(result)
           /\ exit = "FAILED"
           /\ "error" \in DOMAIN result
           /\ result["error"] = "All extraction methods failed"
           /\ result["confidence_score"] = 0

\* Nothing came of S1, S2 and S3, the fetch failed, and the record came back.
C7_Witness ==
    /\ pc = "done"
    /\ exit = "FAILED"
    /\ CallNames = <<"S1", "S2", "S3", "fetch">>
    /\ calls[4].out = "raise"
    /\ result["error"] = "All extraction methods failed"

-----------------------------------------------------------------------------
(* Properties of calculate_confidence_score (specification SpecScore).     *)

ReferenceWeight ==
    [title |-> 200, ingredients |-> 250, instructions |-> 250, image |-> 100,
     total_time |-> 50, yields |-> 50, cuisine |-> 25, category |-> 25, nutrients |-> 50]

ReferenceMultiplier(tag) ==
    CASE tag = "schema.org" -> 10
      [] tag = "json-ld"    -> 9
      [] tag = "wild_mode"  -> 7
      [] tag = "llm"        -> 5
      [] tag = "NOT_FOUND"  -> 0
      [] tag = "ERROR"      -> 0
      [] OTHER              -> 5

RECURSIVE ReferenceSum(_, _)
\* The weighted sum over the fields FieldOrder[1..i], added in that order.
ReferenceSum(data, i) ==
    IF i = 0 THEN FloatZero
    ELSE IF Has(data, FieldOrder[i])
    THEN FloatAdd(ReferenceSum(data, i - 1),
                  FloatProduct(ReferenceWeight[FieldOrder[i]],
                               ReferenceMultiplier(Tag(data, FieldOrder[i]))))
    ELSE ReferenceSum(data, i - 1)

\* Every truthy scored field of the dict has a provenance entry.
AllTagged(data) ==
    /\ "parsing_methods" \in DOMAIN data
    /\ \A f \in ScoredFields : Has(data, f) => Tag(data, f) # "-"

\* C9: on a dict whose truthy fields all have a provenance entry,
\* calculate_confidence_score returns the weighted sum of the specification,
\* rounded to 2 decimals: weight times multiplier of the tag over the fields
\* present and truthy, absent or falsy fields adding nothing.
C9_ScoreIsWeightedSum ==
    AllTagged(score_given) =>
        \A i \in DOMAIN score_ret :
            score_ret[i] = Round2(ReferenceSum(score_given, Len(FieldOrder)))

\* A scored dict with json-ld, wild_mode and unknown tags.
C9_Witness ==
    /\ Len(score_ret) >= 1
    /\ AllTagged(score_given)
    /\ Has(score_given, "title") /\ Tag(score_given, "title") = "json-ld"
    /\ Has(score_given, "ingredients") /\ Tag(score_given, "ingredients") = "wild_mode"
    /\ Has(score_given, "instructions") /\ Tag(score_given, "instructions") = "gpt-fallback"
    /\ ~Has(score_given, "image")
    /\ score_ret[1] = 48

\* title, ingredients and instructions truthy and tagged schema.org, and no
\* optional field in the dict.
RequiredOnly(data) ==
    /\ \A f \in Range(RequiredFields) : Has(data, f) /\ Tag(data, f) = "schema.org"
    /\ \A f \in Range(OptionalFields) : f \notin DOMAIN data

\* C10: for a dict with title, ingredients and instructions tagged schema.org
\* and no optional field, calculate_confidence_score returns exactly 0.70,
\* which is below the HIGH threshold.
C10_RequiredOnlyScores70 ==
    RequiredOnly(score_given) =>
        \A i \in DOMAIN score_ret : score_ret[i] = 70 /\ ~IsHigh(score_ret[i])

\* Such a dict has been scored.
C10_Witness ==
    /\ RequiredOnly(score_given)
    /\ Len(score_ret) >= 1
    /\ score_ret[1] = 70

\* The dict without key k.
Remove(data, k) == [j \in DOMAIN data \ {k} |-> data[j]]

\* The value is empty or made of whitespace only.
IsBlank(v) == v \in {"", " "}

\* C11: an instructions value that is empty or whitespace-only is treated as
\* absent by calculate_confidence_score: whatever its provenance tag, the
\* score is the score of the same dict without instructions.
C11_BlankInstructionsIgnored ==
    ("instructions" \in DOMAIN score_given /\ IsBlank(score_given["instructions"]))
        => \A i \in DOMAIN score_ret :
              score_ret[i] = calculate_confidence_score(Remove(score_given, "instructions"))

-----------------------------------------------------------------------------
(* Further properties of scrape_recipe (specification Spec).               *)

\* Stage 3 or stage 4 merged the strategy's data into the best_data it found.
Merged == ~IsNone(pre) /\ Outcome(incoming) = "data" /\ ~IsNone(best_data)

\* C12: a gap-filling merge never lowers confidence: the score recomputed
\* after the stage-3 or the stage-4 merge is at least the score best_data had
\* before it.  In particular, when S1 yields title, ingredients and
\* instructions only (0.70) and S2 nothing, the run goes on to S2 and S3, and,
\* no fault escaping, returns a record scored at least 0.70, without warning
\* and without the raw-HTML fetch.
C12_MergeNeverLowers ==
    /\ Merged => best_data["confidence_score"] >= pre["confidence_score"]
    /\ (pc = "stage2" /\ ~IsNone(best_data) /\ RequiredOnly(best_data))
          => best_data["confidence_score"] = 70 /\ calls = <<[name |-> "S1", out |-> "data"]>>
    /\ (/\ pc = "done"
        /\ exit # "ERROR"
        /\ Len(calls) >= 2
        /\ calls[1].out = "data" /\ calls[2].out = "none"
        /\ ~IsNone(pre) /\ RequiredOnly(pre))
          => /\ Len(calls) = 3
             /\ CallNames = <<"S1", "S2", "S3">>
             /\ result["confidence_score"] >= 70
             /\ "warning" \notin DOMAIN result
             /\ result["title"] = "v_standard"

\* S1 gave the three required fields, S2 nothing, S3 filled an optional field.
C12_Witness ==
    /\ pc = "done"
    /\ exit = "MEDIUM"
    /\ calls[1].out = "data" /\ calls[2].out = "none" /\ calls[3].out = "data"
    /\ ~IsNone(pre) /\ RequiredOnly(pre)
    /\ pre["confidence_score"] = 70
    /\ result["confidence_score"] > 70
    /\ Merged

-----------------------------------------------------------------------------
(* Properties of lambda_handler (specification SpecHandler).               *)

Responded == pc = "responded"

\* A Notion call of update_notion_page that makes it raise has failed.
UpdateRaised ==
    \E i \in DOMAIN store : store[i].op \in {"properties", "append"} /\ ~store[i].ok

\* Something failed after the page info was extracted: scrape_recipe
\* returned a record with an error, or an exception reached the handler of
\* lambda_handler (update_notion_page refused the record or a call it made
\* raised, or there is no client).
InternalFailure ==
    /\ ~IsNone(page_info)
    /\ \/ (~IsNone(result) /\ "error" \in DOMAIN result)
       \/ caught # ""
       \/ UpdateRaised
       \/ ~notion

\* C13: lambda_handler always returns a statusCode and a body and never
\* raises: every step of it that is not the last can go on, the status is 400
\* exactly when extract_notion_page_info returned None and 200 otherwise, and
\* after an internal failure the 200 response has an error field.
C13_AlwaysResponds ==
    /\ Responded <=> ~IsNone(response)
    /\ Responded =>
          /\ DOMAIN response = {"statusCode", "body"}
          /\ response.statusCode = 400 <=> IsNone(page_info)
          /\ response.statusCode # 400 => response.statusCode = 200
          /\ IsNone(page_info) => "error" \in DOMAIN response.body
          /\ InternalFailure => "error" \in DOMAIN response.body
    /\ pc = "handler" => ENABLED ExtractPageInfo
    /\ (pc = "done" /\ ~IsNone(page_info)) => ENABLED UpdatePage
    /\ pc = "except" => ENABLED ErrorPage

\* Every strategy and the fetch failed, update_notion_page refused the
\* total-failure record, the error page was written, and 200 came back.
C13_Witness ==
    /\ Responded
    /\ exit = "FAILED"
    /\ response.statusCode = 200
    /\ "error" \in DOMAIN response.body
    /\ caught = "Recipe data must include title and host"
    /\ \E i \in DOMAIN store :
          store[i].op = "properties" /\ store[i].ok /\ store[i].title = "Processing Error"

BadRequestReturned == Responded /\ response.statusCode = 400

\* C14 as stated: an invocation that ends with the 400 response has made no
\* network call at all: no unique-ID lookup, no strategy call, no raw-HTML
\* fetch, no destination update.
C14_NoNetworkBefore400 ==
    BadRequestReturned => store = << >> /\ calls = << >>

\* C14, amended: an invocation that ends with the 400 response has made no
\* strategy call, no raw-HTML fetch and no destination update; when the event
\* was rejected for its shape or its URL it has made no network call at all;
\* when it was rejected because no page id could be resolved it has made at
\* most one unique-ID lookup, which gave no page.
C14_ShortCircuit ==
    BadRequestReturned =>
        /\ calls = << >>
        /\ rejected \in {"format", "url", "exception", "page_id"}
        /\ rejected # "page_id" => store = << >>
        /\ Len(store) <= 1
        /\ \A i \in DOMAIN store : store[i].op = "query" /\ store[i].page = ""

\* The URL was good, the unique-ID lookup found no page, the event had no
\* page id of its own, and 400 came back.
C14_Witness ==
    /\ BadRequestReturned
    /\ rejected = "page_id"
    /\ Len(store) = 1
    /\ store[1].op = "query"
    /\ notion

\* The event passed input validation and lambda_handler has returned.
ValidatedAndReturned == Responded /\ ~IsNone(page_info)

\* The store raised on none of the calls made to it.
StoreAccepted == \A i \in DOMAIN store : store[i].ok

\* A properties update with this title has been applied to the target page.
PropertiesApplied(title) ==
    \E i \in DOMAIN store :
        /\ store[i].op = "properties"
        /\ store[i].ok
        /\ store[i].page = page_info.page_id
        /\ store[i].title = title

\* C15 as stated: whenever the event passed validation and the store accepted
\* the calls made to it, a properties update has been applied to the target
\* page by the time lambda_handler returns.
C15_AlwaysUpdated ==
    (ValidatedAndReturned /\ StoreAccepted)
        => \E i \in DOMAIN store :
              store[i].op = "properties" /\ store[i].ok /\ store[i].page = page_info.page_id

\* C15, amended: whenever the event passed validation, the Notion client is
\* set and the store accepted the calls made to it, a properties update has
\* been applied to the target page by the time lambda_handler returns: with
\* the scraped record (its title, with or without a warning) when nothing
\* failed, and with the "Processing Error" record when the scraped record has
\* no title or no host or another internal error occurred.
C15_UpdatedWhenConfigured ==
    (ValidatedAndReturned /\ notion /\ StoreAccepted)
        => /\ \A i \in DOMAIN store :
                 store[i].op # "query" => store[i].page = page_info.page_id
           /\ caught = "" =>
                 /\ Has(result, "title") /\ Has(result, "host")
                 /\ PropertiesApplied(result["title"])
                 /\ "error" \notin DOMAIN response.body
           /\ caught # "" => PropertiesApplied("Processing Error")
           /\ (~Has(result, "title") \/ ~Has(result, "host"))
                 => PropertiesApplied("Processing Error")

\* A low-confidence record with a warning was written to the page.
C15_Witness ==
    /\ ValidatedAndReturned
    /\ notion
    /\ StoreAccepted
    /\ caught = ""
    /\ "warning" \in DOMAIN result
    /\ PropertiesApplied("v_standard")
    /\ page_info.page_id = "page_by_uid"

-----------------------------------------------------------------------------
(* Provenance, freshness and sequencing in scrape_recipe (specification    *)
(* Spec).                                                                  *)

SourceTags == {"schema.org", "json-ld", "wild_mode", "llm", "NOT_FOUND", "ERROR"}

\* C16: in every data record scrape_recipe returns, each scored field present
\* in the record has an entry in parsing_methods, and every value of
\* parsing_methods is one of the six Source Tags.
C16_ProvenanceComplete ==
    ReturnedData =>
        /\ "parsing_methods" \in DOMAIN result
        /\ \A f \in ScoredFields \cap DOMAIN result : f \in DOMAIN result["parsing_methods"]
        /\ \A k \in DOMAIN result["parsing_methods"] :
              result["parsing_methods"][k] \in SourceTags

\* C17: the confidence score is never stale: in every record scrape_recipe
\* returns, confidence_score is what calculate_confidence_score gives for that
\* record and its provenance map.
C17_ScoreNeverStale ==
    (pc = "done" /\ exit # "RAISED")
        => result["confidence_score"] = calculate_confidence_score(result)

\* A record returned after the stage-3 and the stage-4 merge both changed it.
C17_Witness ==
    /\ pc = "done"
    /\ exit = "TERMINAL"
    /\ CallNames = <<"S1", "S2", "S3", "fetch", "S4">>
    /\ Merged
    /\ Has(result, "title") /\ Tag(result, "title") = "llm"
    /\ \E f \in ScoredFields : Has(result, f) /\ Tag(result, f) = "wild_mode"
    /\ result["confidence_score"] > best_score

\* The step just taken made this call, with this outcome, as its last one.
Made(name, out) ==
    /\ Len(calls') > Len(calls)
    /\ calls'[Len(calls')] = [name |-> name, out |-> out]

KeepsBest(next) ==
    /\ best_data' = best_data
    /\ best_score' = best_score
    /\ result' = result
    /\ exit' = exit
    /\ pc' = next

\* C18: a strategy-level failure does not stop the cascade: when S1, S2 or S3
\* returns no data (it could not run, or found none), when the raw-HTML fetch
\* raises, or when S4 gives nothing, best_data and best_score stay as they
\* were and scrape_recipe goes on to the next stage; and a run in which some
\* strategy produced data and no fault escaped returns a data record.
C18_FailureContinues ==
    /\ [][/\ (pc = "stage1" /\ Made("S1", "none")) => KeepsBest("stage2")
          /\ (pc = "stage2" /\ Made("S2", "none")) => KeepsBest("stage3")
          /\ (pc = "stage3" /\ Made("S3", "none")) => KeepsBest("stage4")
          /\ (pc = "stage4" /\ Made("fetch", "raise")) => KeepsBest("terminal")
          /\ (pc = "stage4" /\ (Made("S4", "none") \/ Made("S4", "raise")))
                => KeepsBest("terminal")]_vars
    /\ [](((pc = "done") /\ exit # "ERROR" /\ (\E i \in DOMAIN calls : calls[i].out = "data"))
             => ReturnedData)

\* S1 gave a title, S2 and S3 nothing, the fetch failed: S1's record came back.
C18_Witness ==
    /\ pc = "done"
    /\ exit = "TERMINAL"
    /\ CallNames = <<"S1", "S2", "S3", "fetch">>
    /\ calls[1].out = "data" /\ calls[2].out = "none"
    /\ calls[3].out = "none" /\ calls[4].out = "raise"
    /\ Has(result, "title")
    /\ result["title"] = "v_standard"
    /\ result["parse_timestamp"] = "ts_standard"

-----------------------------------------------------------------------------
(* Sequencing and termination (specification LiveSpec).                    *)

\* The place of a call in the cascade.
Rank(name) ==
    CASE name = "S1" -> 1 [] name = "S2" -> 2 [] name = "S3" -> 3
      [] name = "fetch" -> 4 [] name = "S4" -> 5

\* The stage at which scrape_recipe makes the call.
StageOf(name) ==
    CASE name = "S1" -> "stage1" [] name = "S2" -> "stage2" [] name = "S3" -> "stage3"
      [] name = "fetch" -> "stage4" [] name = "S4" -> "stage4"

\* C19: strict sequencing and termination.  The calls are made in the order
\* S1, S2, S3, fetch, S4, each at most once, S4 only after a fetch that
\* succeeded; a call is made only by the stage it belongs to, before any
\* return, after the calls of the earlier stages; a record is returned once
\* and nothing happens after it; and every run returns.
C19_SequencedAndTerminates ==
    /\ [](/\ \A i, j \in DOMAIN calls : i < j => Rank(calls[i].name) < Rank(calls[j].name)
          /\ \A i \in DOMAIN calls :
                calls[i].name = "S4" => i > 1 /\ calls[i - 1] = [name |-> "fetch", out |-> "ok"]
          /\ pc # "done" => IsNone(result) /\ exit = ""
          /\ pc = "done" => ~IsNone(result) /\ exit # "")
    /\ [][/\ \A i \in DOMAIN calls : i \in DOMAIN calls' /\ calls'[i] = calls[i]
          /\ \A i \in DOMAIN calls' \ DOMAIN calls :
                pc = StageOf(calls'[i].name) /\ exit = ""
          /\ pc # "done"
          /\ result' # result => pc' = "done"]_vars
    /\ <>(pc = "done")

\* A run that made all five calls and returned.
C19_Witness ==
    /\ pc = "done"
    /\ CallNames = <<"S1", "S2", "S3", "fetch", "S4">>
    /\ calls[5].out = "data"
    /\ ~IsNone(result)

-----------------------------------------------------------------------------
(* Stage 2 (specification SpecStage2).                                     *)

\* S2 produced data, and S1 none or data scored strictly lower.
S2Wins ==
    /\ Outcome(incoming) = "data"
    /\ IsNone(pre) \/ incoming["confidence_score"] > pre["confidence_score"]

\* C20: stage 2 replaces, never merges.  When stage 2 does not return,
\* best_data is S2's record if and only if S2 produced data and either S1
\* produced none or S2's score is strictly greater; otherwise it is S1's
\* record (or still None), so S1 wins ties.  An adopted S2 record has nothing
\* from S1 in it, and best_score is the score of the record kept.
C20_Stage2Replaces ==
    pc = "stage3" =>
        /\ CallNames = <<"S1", "S2">>
        /\ best_data = IF S2Wins THEN incoming ELSE pre
        /\ S2Wins =>
              /\ best_data["parse_timestamp"] = "ts_jsonld"
              /\ "missing_required" \notin DOMAIN best_data
              /\ \A f \in ScoredFields \cap DOMAIN best_data : best_data[f] \in {"v_jsonld", ""}
              /\ \A f \in DOMAIN best_data["parsing_methods"] :
                    best_data["parsing_methods"][f] = "json-ld"
        /\ ~IsNone(best_data) => best_score = best_data["confidence_score"]
        /\ IsNone(best_data) => best_score = 0

\* S1 and S2 both produced data with the same score, and S1's record stayed.
C20_Witness ==
    /\ pc = "stage3"
    /\ Outcome(pre) = "data"
    /\ Outcome(incoming) = "data"
    /\ incoming["confidence_score"] = pre["confidence_score"]
    /\ pre["confidence_score"] > 0
    /\ best_data = pre
    /\ best_data["parse_timestamp"] = "ts_standard"

-----------------------------------------------------------------------------
(* The merges of stage 3 and stage 4 (specification Spec).                 *)

\* The tag of the merge made last: stage 3 has just run, or stage 4.
MergeTag == IF pc = "stage4" \/ exit = "MEDIUM" THEN "wild_mode" ELSE "llm"

\* The dict has the same entry for key k, or lacks it, as the other.
SameEntry(a, b, k) ==
    /\ k \in DOMAIN a <=> k \in DOMAIN b
    /\ k \in DOMAIN a => a[k] = b[k]

\* C21: merge effect and tagging.  After the stage-3 merge every recipe field
\* of S3's result that was absent or empty in best_data holds S3's value and
\* is tagged wild_mode; after the stage-4 merge likewise with S4's value and
\* llm; every other recipe field has the value it had, and the tag it had
\* unless best_data came with an empty provenance map; url, host and
\* parse_timestamp are those of best_data, and confidence_score is the score
\* of the merged record.
C21_MergeFillsAndTags ==
    Merged =>
        /\ \A f \in ScoredFields :
              IF f \in DOMAIN incoming /\ ~Has(pre, f)
              THEN /\ f \in DOMAIN best_data
                   /\ best_data[f] = incoming[f]
                   /\ Tag(best_data, f) = MergeTag
              ELSE /\ SameEntry(best_data, pre, f)
                   /\ Truthy("parsing_methods", pre["parsing_methods"])
                         => Tag(best_data, f) = Tag(pre, f)
        /\ \A k \in {"url", "host", "parse_timestamp"} : SameEntry(best_data, pre, k)
        /\ best_data["confidence_score"] = calculate_confidence_score(best_data)

\* S1 gave a title alone; stage 3 filled ingredients from S3, and stage 4 then
\* filled instructions with S4's empty value, tagged llm.
C21_Witness ==
    /\ pc = "terminal"
    /\ Merged
    /\ CallNames = <<"S1", "S2", "S3", "fetch", "S4">>
    /\ best_data["title"] = "v_standard" /\ Tag(best_data, "title") = "schema.org"
    /\ Has(best_data, "ingredients")
    /\ best_data["ingredients"] = "v_wild" /\ Tag(best_data, "ingredients") = "wild_mode"
    /\ "instructions" \notin DOMAIN pre
    /\ "instructions" \in DOMAIN best_data
    /\ best_data["instructions"] = "" /\ Tag(best_data, "instructions") = "llm"

\* Stage 3 has just merged S3's data into the best_data it found.
MergedWild == Merged /\ MergeTag = "wild_mode"

\* C22: the MEDIUM exit of stage 3.  When a best existed and S3 produced data,
\* the score recomputed after the merge decides: at 0.6 or more scrape_recipe
\* returns the merged best_data at once, without a warning, the raw-HTML fetch
\* and S4 not invoked; below 0.6 nothing is returned and the run is at the
\* stage-4 gate.  No other path takes this return.
C22_MediumExit ==
    /\ exit = "MEDIUM" =>
          /\ pc = "done"
          /\ MergedWild
          /\ result = best_data
          /\ result["confidence_score"] = calculate_confidence_score(result)
          /\ result["confidence_score"] >= MEDIUM
          /\ "warning" \notin DOMAIN result
          /\ CallNames = <<"S1", "S2", "S3">>
    /\ MergedWild =>
          /\ best_data["confidence_score"] >= MEDIUM <=> (pc = "done" /\ exit = "MEDIUM")
          /\ best_data["confidence_score"] < MEDIUM <=> (pc = "stage4" /\ IsNone(result))
          /\ ~Called("fetch") /\ ~Called("S4")

\* A best scored under 0.6 was lifted by the merge to 0.6 exactly and returned.
C22_Witness ==
    /\ pc = "done"
    /\ exit = "MEDIUM"
    /\ MergedWild
    /\ pre["confidence_score"] < MEDIUM
    /\ result["confidence_score"] = MEDIUM

\* S1 and S2 produced nothing and S3 produced data.
WildAlone ==
    /\ Len(calls) >= 3
    /\ calls[1].out = "none" /\ calls[2].out = "none"
    /\ calls[3] = [name |-> "S3", out |-> "data"]

\* C23: when S1 and S2 produced nothing and S3 produces data, S3's result
\* becomes best_data as it is, with S3's own provenance tags, and best_score
\* becomes S3's own score; nothing is returned at stage 3, and that score
\* decides stage 4: the raw-HTML fetch is made if and only if it is below 0.4.
C23_WildBecomesBest ==
    /\ (pc = "stage4" /\ WildAlone) =>
          /\ IsNone(pre)
          /\ best_data = incoming
          /\ best_data["parse_timestamp"] = "ts_wild"
          /\ \A f \in DOMAIN best_data["parsing_methods"] :
                best_data["parsing_methods"][f] \in {"wild_mode", "NOT_FOUND"}
          /\ \A f \in ScoredFields \cap DOMAIN best_data :
                best_data[f] = "v_wild" /\ Tag(best_data, f) = "wild_mode"
          /\ best_score = best_data["confidence_score"]
          /\ best_score = calculate_confidence_score(best_data)
          /\ IsNone(result)
    /\ (pc \in {"terminal", "done"} /\ WildAlone) =>
          /\ pre["parse_timestamp"] = "ts_wild"
          /\ best_score = pre["confidence_score"]
          /\ Called("fetch") <=> pre["confidence_score"] < LOW
          /\ exit # "MEDIUM"

\* S3's own record, scored 0.6 or more, went through stage 4 untouched.
C23_Witness ==
    /\ pc = "terminal"
    /\ WildAlone
    /\ CallNames = <<"S1", "S2", "S3">>
    /\ best_data = pre
    /\ best_score >= MEDIUM
    /\ best_data["title"] = "v_wild"

-----------------------------------------------------------------------------
(* Properties of try_standard_scraping (specification SpecStandard).       *)

\* The scraper was created and try_standard_scraping has returned.
ScrapedPage == pc = "returned" /\ ~IsUnavailable(standard_page)

\* The fields whose method call gave no value or raised.
FailedFields == {f \in ScoredFields : standard_page[f] # "ok"}

\* The record is returned, with each field that could be extracted in it,
\* tagged schema.org, whatever the other fields did, and missing_required
\* lists the required fields that failed, each once and nothing else.
PartialRecordReturned ==
    /\ ~IsNone(standard_ret)
    /\ \A f \in ScoredFields \ FailedFields :
          /\ f \in DOMAIN standard_ret
          /\ standard_ret[f] = "v_standard"
          /\ Tag(standard_ret, f) = "schema.org"
    /\ \A f \in FailedFields : f \notin DOMAIN standard_ret
    /\ LET missing_required == Get(standard_ret, "missing_required", << >>)
       IN  /\ Range(missing_required) = FailedFields \cap Range(RequiredFields)
           /\ Len(missing_required) = Cardinality(Range(missing_required))
           /\ "missing_required" \in DOMAIN standard_ret <=> missing_required # << >>
    /\ standard_ret["confidence_score"] = calculate_confidence_score(standard_ret)

\* C24 as stated: S1 extracts every field independently, tags every extracted
\* field schema.org and every failed optional field (empty value or
\* exception) NOT_FOUND, lists the failed required fields in missing_required
\* and returns the partial record whenever the scraper could be created.
C24_FieldsIndependent ==
    ScrapedPage =>
        /\ PartialRecordReturned
        /\ \A f \in FailedFields \cap Range(OptionalFields) :
              Tag(standard_ret, f) = "NOT_FOUND"

\* C24, amended: as above, but an optional field is tagged NOT_FOUND when its
\* method gave an empty value and ERROR when it raised; a failed required
\* field gets no tag; and when the scraper could not be created nothing is
\* returned.
C24_FieldsIndependentTagged ==
    /\ ScrapedPage =>
          /\ PartialRecordReturned
          /\ \A f \in FailedFields \cap Range(OptionalFields) :
                Tag(standard_ret, f) =
                    IF standard_page[f] = "empty" THEN "NOT_FOUND" ELSE "ERROR"
          /\ \A f \in FailedFields \cap Range(RequiredFields) : Tag(standard_ret, f) = "-"
    /\ (pc = "returned" /\ IsUnavailable(standard_page)) => IsNone(standard_ret)

\* The title raised, the ingredients were empty, an optional field raised,
\* and the record came back with the instructions in it.
C24_Witness ==
    /\ ScrapedPage
    /\ standard_page["title"] = "exc"
    /\ standard_page["ingredients"] = "empty"
    /\ standard_page["instructions"] = "ok"
    /\ standard_page["image"] = "exc"
    /\ ~IsNone(standard_ret)
    /\ standard_ret["missing_required"] = <<"title", "ingredients">>
    /\ standard_ret["instructions"] = "v_standard"
    /\ Tag(standard_ret, "image") = "ERROR"

-----------------------------------------------------------------------------
(* The stage-4 gate over whole runs (specification Spec).                  *)

\* The current best data scores 0.6 or more before stage 4 has run: S1's or
\* S2's record, S3's own record, or the record merged at stage 3, returned
\* or kept.
ClearedMedium ==
    \/ /\ pc \in {"stage2", "stage3", "stage4"}
       /\ ~IsNone(best_data)
       /\ best_data["confidence_score"] >= MEDIUM
    \/ exit \in {"HIGH1", "HIGH2", "MEDIUM"}

\* C25: S4 is never invoked once MEDIUM has been cleared: from the moment the
\* best data scores 0.6 or more, the run makes neither the raw-HTML fetch nor
\* the S4 call, up to its end.
C25_NoLlmAfterMedium ==
    [](ClearedMedium => [](~Called("fetch") /\ ~Called("S4")))

\* S1's record scored between 0.6 and 0.8, S2 and S3 gave nothing, and the
\* record was returned without the fetch.
C25_Witness ==
    /\ pc = "done"
    /\ exit = "TERMINAL"
    /\ calls = <<[name |-> "S1", out |-> "data"], [name |-> "S2", out |-> "none"],
                 [name |-> "S3", out |-> "none"]>>
    /\ result["confidence_score"] >= MEDIUM
    /\ result["confidence_score"] < HIGH

-----------------------------------------------------------------------------
(* Properties of extract_notion_page_info (specification SpecPageInfo).    *)

\* The event has a "Unique ID" property.
CarriesUniqueId == event_given.unique_id # "absent"

\* The database query was made and returned a page.
LookupSucceeded ==
    /\ CarriesUniqueId
    /\ \E i \in DOMAIN store : store[i].op = "query" /\ store[i].ok
    /\ lookup_given = "found"

\* C26: target resolution.  The unique-ID lookup is made only for an event
\* with a Unique ID property whose shape and URL were accepted; the page id
\* is the one the lookup returned when it succeeded, the page id of the
\* payload when it failed, found nothing or was not made; and once the URL is
\* accepted, failure is reported exactly when neither gives a page id.
C26_TargetResolution ==
    pc = "extracted" =>
        /\ rejected \in {"format", "url", "exception"} => store = << >> /\ IsNone(page_info)
        /\ store # << >> =>
              /\ CarriesUniqueId
              /\ is_valid_url(LinkUrl(event_given))
              /\ Len(store) = 1
        /\ rejected \in {"", "page_id"} =>
              /\ LookupSucceeded
                    => ~IsNone(page_info) /\ page_info.page_id = "page_by_uid"
              /\ (~LookupSucceeded /\ event_given.id # "")
                    => ~IsNone(page_info) /\ page_info.page_id = event_given.id
              /\ IsNone(page_info) <=> (~LookupSucceeded /\ event_given.id = "")
              /\ IsNone(page_info) <=> rejected = "page_id"
              /\ ~IsNone(page_info) => page_info.url = LinkUrl(event_given)

\* The event had a page id of its own and a Unique ID; the lookup found a
\* page, and that page is the target.
C26_Witness ==
    /\ pc = "extracted"
    /\ CarriesUniqueId
    /\ event_given.id = "page_direct"
    /\ LookupSucceeded
    /\ ~IsNone(page_info)
    /\ page_info.page_id = "page_by_uid"

-----------------------------------------------------------------------------
(* Required fields and bookkeeping keys (specification Spec).              *)

\* C27: every record scrape_recipe returns with a confidence_score of 0.8 or
\* more has a non-empty title, non-empty ingredients and non-empty
\* instructions.
C27_HighHasRequired ==
    (ReturnedData /\ result["confidence_score"] >= HIGH)
        => \A f \in Range(RequiredFields) : Has(result, f)

\* The keys a record carries besides the recipe's fields.
BookkeepingKeys == {"confidence_score", "parsing_methods", "parse_timestamp"}

\* C28: gap-filling merges touch recipe content only.  The keys of
\* parsing_methods in a returned data record are recipe field names; and after
\* a merge no bookkeeping key has a provenance tag, and parse_timestamp and
\* the provenance entries best_data had are still best_data's own, also when
\* its score was 0.0 or its provenance map empty.
C28_MergeTouchesContentOnly ==
    /\ ReturnedData => DOMAIN result["parsing_methods"] \subseteq ScoredFields
    /\ Merged =>
          /\ \A k \in BookkeepingKeys : Tag(best_data, k) = "-"
          /\ best_data["parse_timestamp"] = pre["parse_timestamp"]
          /\ \A f \in DOMAIN pre["parsing_methods"] :
                Has(pre, f) => Tag(best_data, f) = Tag(pre, f)
          /\ DOMAIN best_data["parsing_methods"] \subseteq
                DOMAIN pre["parsing_methods"] \cup (DOMAIN incoming \cap ScoredFields)

-----------------------------------------------------------------------------
(* Missing and unknown provenance entries (specification SpecScore).       *)

\* The truthy scored fields of the dict that have no provenance entry.
Untagged(data) == {f \in ScoredFields : Has(data, f) /\ Tag(data, f) = "-"}

\* The dict without the keys in ks.
Without(data, ks) == [j \in DOMAIN data \ ks |-> data[j]]

\* The dict with tag t given to every truthy field with a tag that
\* source_multipliers does not list.
Retagged(data, t) ==
    IF "parsing_methods" \notin DOMAIN data THEN data
    ELSE Put(data, "parsing_methods",
             [f \in DOMAIN data["parsing_methods"] |->
                 IF data["parsing_methods"][f] \in SourceTags
                 THEN data["parsing_methods"][f] ELSE t])

\* f is the only truthy scored field of the dict.
OnlyField(data, f) == \A g \in ScoredFields : Has(data, g) <=> g = f

\* C29: a truthy field without an entry in parsing_methods adds nothing to
\* the score (the dict scores as if the field were not there), a field whose
\* entry is a tag the scorer does not know adds weight x 0.5 (the dict scores
\* as if the tag were llm), and the record of extract_recipe_with_gpt, whose
\* only entry is all_fields, scores 0.0.
C29_MissingEntryScoresZero ==
    \A i \in DOMAIN score_ret :
        /\ score_ret[i] = calculate_confidence_score(Without(score_given, Untagged(score_given)))
        /\ score_ret[i] = calculate_confidence_score(Retagged(score_given, "llm"))
        /\ \A f \in ScoredFields :
              OnlyField(score_given, f) =>
                  /\ Tag(score_given, f) = "-" => score_ret[i] = 0
                  /\ Tag(score_given, f) = "gpt-fallback"
                        => score_ret[i] = Round2(FloatProduct(ReferenceWeight[f],
                                                            ReferenceMultiplier("gpt-fallback")))
        /\ score_given = extract_recipe_with_gpt("html", FALSE) => score_ret[i] = 0

\* The scored record of extract_recipe_with_gpt: a title, no entry for it.
C29_Witness ==
    /\ Len(score_ret) >= 1
    /\ score_given = extract_recipe_with_gpt("html", FALSE)
    /\ Has(score_given, "title")
    /\ Untagged(score_given) = {"title"}
    /\ score_ret[1] = 0

-----------------------------------------------------------------------------
(* Properties of update_notion_page (specification SpecHandler).           *)

\* The record lambda_handler hands to update_notion_page in the step taken:
\* the scraped one after scrape_recipe, the error record in its handler.
RecordHanded ==
    IF pc = "except" THEN ProcessingError(page_info.url, caught)
    ELSE IF IsNone(result) THEN ParsingFailed(page_info.url)
    ELSE result

\* The calls the step taken made to the Notion API.
CallsAdded == SubSeq(store', Len(store) + 1, Len(store'))

\* Each call with this operation comes after one with the other.
ComesAfter(made, op, earlier) ==
    \A i \in DOMAIN made :
        made[i].op = op => \E j \in 1..(i - 1) : made[j].op = earlier

\* C30: update_notion_page rejects unusable data before touching the
\* destination.  Called without a client, or with a record that lacks a
\* non-empty title or a non-empty host, it raises and makes no call to the
\* destination; when it goes on, its first call is the properties update,
\* blocks are listed and deleted only after it, and new blocks are appended
\* only after that step, all on the target page.
C30_RejectsBeforeTouching ==
    [][(pc \in {"done", "except"} /\ exit # "RAISED") =>
          /\ (~notion \/ ~Has(RecordHanded, "title") \/ ~Has(RecordHanded, "host")) =>
                /\ CallsAdded = << >>
                /\ pc = "done" =>
                      /\ pc' = "except"
                      /\ caught' \in {"Notion client not initialized",
                                      "Recipe data must include title and host"}
          /\ CallsAdded # << >> => CallsAdded[1].op = "properties"
          /\ ComesAfter(CallsAdded, "cover", "properties")
          /\ ComesAfter(CallsAdded, "cleanup", "properties")
          /\ ComesAfter(CallsAdded, "append", "cleanup")
          /\ \A i \in DOMAIN CallsAdded : CallsAdded[i].page = page_info.page_id]_vars

\* The record of S4 alone, a title without a host, was refused: no call was
\* made for it.
C30_Witness ==
    /\ pc = "except"
    /\ notion
    /\ caught = "Recipe data must include title and host"
    /\ Has(result, "title")
    /\ ~Has(result, "host")
    /\ store = << >>

=============================================================================
